---------------------------- MODULE Spec2Model ----------------------------
(***************************************************************************)
(* Raven UI components: RetractVote (context-menu action of a poll         *)
(* message), ChatInput (text box posting to send_message) and              *)
(* AddChannelMemberModal (form with one list-valued field).                *)
(*                                                                         *)
(* JavaScript runs every task to completion and drains the microtask queue *)
(* before the next task: a promise reaction (.then/.catch callback) that   *)
(* has become runnable is run before any further UI event or network       *)
(* completion is handled.  React flushes a pending passive effect before   *)
(* it handles the next discrete event.  The guards on ChatMicrotask,       *)
(* RetractMicrotask and effectPending below state exactly that.            *)
(***************************************************************************)
EXTENDS Naturals, Sequences, FiniteSets

VARIABLES
    \* ---- ChatInput ----
    text,           \* useState("") : the input's value
    sends,          \* one promise chain per onSubmit invocation
    addMessageLog,  \* the calls of the addMessage prop, in call order
    unhandled,      \* chains that ended in an unhandled promise rejection
    \* ---- RetractVote ----
    message,        \* the message prop
    getState,       \* state of the get_poll fetch behind useFrappeGetCall
    data,           \* the hook's data
    calls,          \* one promise chain per onRetractVote invocation
    toasts,         \* the calls of toast(), in call order
    \* ---- AddChannelMemberModal ----
    isOpen,         \* the isOpen prop
    add_members,    \* the form's add_members value
    effectPending,  \* the useEffect on [isOpen, reset] is scheduled
    onCloseCalls,   \* number of calls of the onClose prop
    consoleLog,     \* the console.log lines of onSubmit
    lastEvent,      \* the last modal event handled
    \* ---- shared ----
    requests        \* every network request issued, in order

chatVars == <<text, sends, addMessageLog, unhandled>>
retractVars == <<message, getState, data, calls, toasts>>
modalVars == <<isOpen, add_members, effectPending, onCloseCalls, consoleLog, lastEvent>>
vars == <<chatVars, retractVars, modalVars, requests>>

\* ------------------------------------------------------------------ bounds
MaxSends == 2
MaxCalls == 3
MaxCloses == 4

\* values the text input can take
Texts == {"", "a", "b", "ab"}

\* ------------------------------------------------------------- ChatInput
user_id == "patiladitya781@gmail.com"
channel_id == "862bf4d1ce"

SendMessageEndpoint == "raven.messaging.doctype.message.message.send_message"

\* the fetch() of onSubmit: method, endpoint and the JSON body's members
SendMessageRequest(t) ==
    [method |-> "POST", endpoint |-> SendMessageEndpoint,
     body |-> [channel_id |-> channel_id, user_id |-> user_id, text |-> t]]

\* sendDisabled that never disables the button
sendDisabled_Never == FALSE

\* sendDisabled that also disables the button while a POST is outstanding
sendDisabled_WhileLoading ==
    \/ Len(text) = 0
    \/ \E i \in DOMAIN sends : sends[i].st = "post_pending"

\* isDisabled of the submit IconButton
sendDisabled == Len(text) = 0

\* a promise reaction of some ChatInput chain is runnable
ChatMicrotask == \E i \in DOMAIN sends : sends[i].st \in {"post_resolved", "add_resolved"}

\* onChange: setText(event.target.value)
onChange(v) ==
    /\ ~ChatMicrotask
    /\ text' = v
    /\ UNCHANGED <<sends, addMessageLog, unhandled, requests, retractVars, modalVars>>

\* onSubmit: issues the fetch; the chain closes over the render's text
onSubmit ==
    /\ requests' = Append(requests, SendMessageRequest(text))
    /\ sends' = Append(sends, [text |-> text, st |-> "post_pending", prev |-> ""])
    /\ UNCHANGED <<text, addMessageLog, unhandled, retractVars, modalVars>>

\* the form's submit event, which only the enabled submit button raises
ClickSend ==
    /\ ~ChatMicrotask
    /\ ~sendDisabled
    /\ Len(sends) < MaxSends
    /\ onSubmit

\* the fetch promise of chain i settles
PostResolve(i) ==
    /\ ~ChatMicrotask
    /\ sends[i].st = "post_pending"
    /\ sends' = [sends EXCEPT ![i].st = "post_resolved"]
    /\ UNCHANGED <<text, addMessageLog, unhandled, requests, retractVars, modalVars>>

\* a rejected fetch skips both .then callbacks; nothing catches it
PostReject(i) ==
    /\ ~ChatMicrotask
    /\ sends[i].st = "post_pending"
    /\ sends' = [sends EXCEPT ![i].st = "post_rejected"]
    /\ unhandled' = unhandled \cup {i}
    /\ UNCHANGED <<text, addMessageLog, requests, retractVars, modalVars>>

\* ThenAddMessage reading the input's current value, not the closure's
ThenAddMessage_Fresh(i) ==
    /\ sends[i].st = "post_resolved"
    /\ addMessageLog' = Append(addMessageLog, [text |-> text, user |-> user_id, of |-> i])
    /\ sends' = [sends EXCEPT ![i].st = "add_pending"]
    /\ UNCHANGED <<text, unhandled, requests, retractVars, modalVars>>

\* ThenAddMessage as a .finally callback: it runs after a rejected POST too
ThenAddMessage_Finally(i) ==
    /\ sends[i].st \in {"post_resolved", "post_rejected"}
    /\ addMessageLog' = Append(addMessageLog, [text |-> sends[i].text, user |-> user_id, of |-> i])
    /\ sends' = [sends EXCEPT ![i].st = "add_pending"]
    /\ UNCHANGED <<text, unhandled, requests, retractVars, modalVars>>

\* .then(() => addMessage(text, user_id))
ThenAddMessage(i) ==
    /\ sends[i].st = "post_resolved"
    /\ addMessageLog' = Append(addMessageLog, [text |-> sends[i].text, user |-> user_id, of |-> i])
    /\ sends' = [sends EXCEPT ![i].st = "add_pending"]
    /\ UNCHANGED <<text, unhandled, requests, retractVars, modalVars>>

\* the promise returned by addMessage settles
AddResolve(i) ==
    /\ ~ChatMicrotask
    /\ sends[i].st = "add_pending"
    /\ sends' = [sends EXCEPT ![i].st = "add_resolved"]
    /\ UNCHANGED <<text, addMessageLog, unhandled, requests, retractVars, modalVars>>

AddReject(i) ==
    /\ ~ChatMicrotask
    /\ sends[i].st = "add_pending"
    /\ sends' = [sends EXCEPT ![i].st = "add_rejected"]
    /\ unhandled' = unhandled \cup {i}
    /\ UNCHANGED <<text, addMessageLog, requests, retractVars, modalVars>>

\* ThenClear that clears the field only if it still holds the text sent
ThenClear_KeepTyped(i) ==
    /\ sends[i].st = "add_resolved"
    /\ text' = IF text = sends[i].text THEN "" ELSE text
    /\ sends' = [sends EXCEPT ![i].st = "done", ![i].prev = text]
    /\ UNCHANGED <<addMessageLog, unhandled, requests, retractVars, modalVars>>

\* .then(() => { setText("") }); prev keeps the value setText overwrote
ThenClear(i) ==
    /\ sends[i].st = "add_resolved"
    /\ text' = ""
    /\ sends' = [sends EXCEPT ![i].st = "done", ![i].prev = text]
    /\ UNCHANGED <<addMessageLog, unhandled, requests, retractVars, modalVars>>

\* the runnable promise reactions of ChatInput
ChatReaction == \E i \in DOMAIN sends : ThenAddMessage(i) \/ ThenClear(i)

ChatNext ==
    \/ \E v \in Texts : onChange(v)
    \/ ClickSend
    \/ \E i \in DOMAIN sends : PostResolve(i)
    \/ \E i \in DOMAIN sends : PostReject(i)
    \/ \E i \in DOMAIN sends : AddResolve(i)
    \/ \E i \in DOMAIN sends : AddReject(i)
    \/ \E i \in DOMAIN sends : ThenAddMessage(i)
    \/ \E i \in DOMAIN sends : ThenClear(i)


\* ----------------------------------------------------------- RetractVote
Undefined == [kind |-> "undefined"]

Messages == {[name |-> "m1", poll_id |-> "p1"], [name |-> "m2", poll_id |-> "p2"]}

\* current_user_votes lists a get_poll response can carry
VoteLists == {<<>>, <<"o1">>, <<"o1", "o2">>}

\* Poll: the poll document's is_disabled check field (0 or 1) and the votes
Polls == [kind : {"poll"}, is_disabled : {0, 1}, current_user_votes : VoteLists]

\* { message: Poll }, message possibly absent
Responses == [kind : {"object"}, message : Polls \cup {Undefined}]

GetPollRequest(m) ==
    [method |-> "GET", endpoint |-> "raven.api.raven_poll.get_poll",
     body |-> [message_id |-> m.name]]

RetractVoteEndpoint == "raven.api.raven_poll.retract_vote"

RetractVoteRequest(m) ==
    [method |-> "POST", endpoint |-> RetractVoteEndpoint, body |-> [poll_id |-> m.poll_id]]

ToastDuration == 800

RenderNull == [kind |-> "null"]

\* showItem with >= in place of >: an empty votes list shows the item
showItem_AllowEmpty ==
    /\ data.kind = "object"
    /\ data.message.kind = "poll"
    /\ Len(data.message.current_user_votes) >= 0

\* data && data.message?.current_user_votes.length > 0
showItem ==
    /\ data.kind = "object"
    /\ data.message.kind = "poll"
    /\ Len(data.message.current_user_votes) > 0

\* what the component returns
Render ==
    IF showItem
    THEN [kind |-> "fragment", item |-> "Retract vote",
          disabled |-> (data.message.is_disabled # 0), separator |-> TRUE]
    ELSE RenderNull

\* a promise reaction of some onRetractVote chain is runnable
RetractMicrotask == \E i \in DOMAIN calls : calls[i].st \in {"resolved", "rejected"}

\* the get_poll fetch of useFrappeGetCall settles
GetResolve(d) ==
    /\ ~RetractMicrotask
    /\ getState = "loading"
    /\ getState' = "ok"
    /\ data' = d
    /\ UNCHANGED <<message, calls, toasts, requests, chatVars, modalVars>>

GetReject ==
    /\ ~RetractMicrotask
    /\ getState = "loading"
    /\ getState' = "error"
    /\ UNCHANGED <<message, data, calls, toasts, requests, chatVars, modalVars>>

\* onRetractVote: call({ poll_id: message?.poll_id })
onRetractVote ==
    /\ requests' = Append(requests, RetractVoteRequest(message))
    /\ calls' = Append(calls, [poll_id |-> message.poll_id, st |-> "pending"])
    /\ UNCHANGED <<message, getState, data, toasts, chatVars, modalVars>>

\* onClick of the rendered, enabled ContextMenu.Item
ClickRetract ==
    /\ ~RetractMicrotask
    /\ Render.kind = "fragment"
    /\ ~Render.disabled
    /\ Len(calls) < MaxCalls
    /\ onRetractVote

CallResolve(i) ==
    /\ ~RetractMicrotask
    /\ calls[i].st = "pending"
    /\ calls' = [calls EXCEPT ![i].st = "resolved"]
    /\ UNCHANGED <<message, getState, data, toasts, requests, chatVars, modalVars>>

CallReject(i) ==
    /\ ~RetractMicrotask
    /\ calls[i].st = "pending"
    /\ calls' = [calls EXCEPT ![i].st = "rejected"]
    /\ UNCHANGED <<message, getState, data, toasts, requests, chatVars, modalVars>>

\* .then(() => toast({ title: 'Vote retracted', ... }))
ThenToast(i) ==
    /\ calls[i].st = "resolved"
    /\ toasts' = Append(toasts, [title |-> "Vote retracted", variant |-> "accent",
                                 duration |-> ToastDuration, of |-> i])
    /\ calls' = [calls EXCEPT ![i].st = "done_ok"]
    /\ UNCHANGED <<message, getState, data, requests, chatVars, modalVars>>

\* CatchToast with a handler that swallows the rejection
CatchToast_Silent(i) ==
    /\ calls[i].st = "rejected"
    /\ calls' = [calls EXCEPT ![i].st = "done_err"]
    /\ UNCHANGED <<message, getState, data, toasts, requests, chatVars, modalVars>>

\* .catch(() => toast({ title: 'Could not retract vote', ... }))
CatchToast(i) ==
    /\ calls[i].st = "rejected"
    /\ toasts' = Append(toasts, [title |-> "Could not retract vote", variant |-> "destructive",
                                 duration |-> ToastDuration, of |-> i])
    /\ calls' = [calls EXCEPT ![i].st = "done_err"]
    /\ UNCHANGED <<message, getState, data, requests, chatVars, modalVars>>

RetractNext ==
    \/ \E d \in Responses : GetResolve(d)
    \/ GetReject
    \/ ClickRetract
    \/ \E i \in DOMAIN calls : CallResolve(i)
    \/ \E i \in DOMAIN calls : CallReject(i)
    \/ \E i \in DOMAIN calls : ThenToast(i)
    \/ \E i \in DOMAIN calls : CatchToast(i)

\* ------------------------------------------------- AddChannelMemberModal
Null == [kind |-> "null", items |-> <<>>]
Arr(s) == [kind |-> "array", items |-> s]

\* what AddMembersDropdown can set the field to
MemberLists == {<<>>, <<"u1">>, <<"u2">>, <<"u1", "u2">>}

\* useForm({ defaultValues: { add_members: null } })
defaultValues == [add_members |-> Null]

\* reset(): back to the default values
reset == add_members' = defaultValues.add_members

\* RunEffect with an effect body that does not reset the form
RunEffect_NoReset ==
    /\ effectPending
    /\ effectPending' = FALSE
    /\ UNCHANGED <<isOpen, add_members, onCloseCalls, consoleLog, lastEvent, requests, chatVars, retractVars>>

\* useEffect(() => { reset() }, [isOpen, reset])
RunEffect ==
    /\ effectPending
    /\ reset
    /\ effectPending' = FALSE
    /\ UNCHANGED <<isOpen, onCloseCalls, consoleLog, lastEvent, requests, chatVars, retractVars>>

\* the parent re-renders the modal with the other isOpen
ParentToggle ==
    /\ ~effectPending
    /\ isOpen' = ~isOpen
    /\ effectPending' = TRUE
    /\ lastEvent' = IF isOpen THEN "close" ELSE "open"
    /\ UNCHANGED <<add_members, onCloseCalls, consoleLog, requests, chatVars, retractVars>>

\* AddMembersDropdown changes the add_members field
SelectMembers(s) ==
    /\ ~effectPending
    /\ isOpen
    /\ add_members' = Arr(s)
    /\ lastEvent' = "select"
    /\ UNCHANGED <<isOpen, effectPending, onCloseCalls, consoleLog, requests, chatVars, retractVars>>

\* modalOnSubmit that posts the selected members before closing
modalOnSubmit_Posts ==
    /\ consoleLog' = Append(consoleLog, [data |-> [add_members |-> add_members],
                                         members |-> add_members])
    /\ requests' = Append(requests, [method |-> "POST", endpoint |-> "add_members",
                                     body |-> [members |-> add_members.items]])
    /\ onCloseCalls' = onCloseCalls + 1
    /\ UNCHANGED <<isOpen, add_members, effectPending, chatVars, retractVars>>

\* onSubmit(data): console.log(data, members); onClose()
modalOnSubmit ==
    /\ consoleLog' = Append(consoleLog, [data |-> [add_members |-> add_members],
                                         members |-> add_members])
    /\ onCloseCalls' = onCloseCalls + 1
    /\ UNCHANGED <<isOpen, add_members, effectPending, requests, chatVars, retractVars>>

\* the Save button: handleSubmit(onSubmit), no validation rule to fail
ClickSave ==
    /\ ~effectPending
    /\ isOpen
    /\ onCloseCalls < MaxCloses
    /\ lastEvent' = "save"
    /\ modalOnSubmit

\* the Cancel button: onClick={onClose}
ClickCancel ==
    /\ ~effectPending
    /\ isOpen
    /\ onCloseCalls < MaxCloses
    /\ onCloseCalls' = onCloseCalls + 1
    /\ lastEvent' = "cancel"
    /\ UNCHANGED <<isOpen, add_members, effectPending, consoleLog, requests, chatVars, retractVars>>

\* Modal's own onClose={onClose}: the close button, Esc, an overlay click
DismissModal ==
    /\ ~effectPending
    /\ isOpen
    /\ onCloseCalls < MaxCloses
    /\ onCloseCalls' = onCloseCalls + 1
    /\ lastEvent' = "dismiss"
    /\ UNCHANGED <<isOpen, add_members, effectPending, consoleLog, requests, chatVars, retractVars>>

ModalNext ==
    \/ RunEffect
    \/ ParentToggle
    \/ \E s \in MemberLists : SelectMembers(s)
    \/ ClickSave
    \/ ClickCancel
    \/ DismissModal

\* --------------------------------------------------------- specifications
ChatMount ==
    /\ text = ""
    /\ sends = <<>>
    /\ addMessageLog = <<>>
    /\ unhandled = {}

\* mounted with the poll either fetched before (SWR cache) or being fetched
RetractMount ==
    /\ message \in Messages
    /\ calls = <<>>
    /\ toasts = <<>>
    /\ \/ getState = "loading" /\ data = Undefined
       \/ getState = "ok" /\ data \in Responses

ModalMount ==
    /\ isOpen \in BOOLEAN
    /\ add_members = defaultValues.add_members
    /\ effectPending = TRUE
    /\ onCloseCalls = 0
    /\ consoleLog = <<>>
    /\ lastEvent = "mount"

Init ==
    /\ ChatMount
    /\ RetractMount
    /\ ModalMount
    /\ requests = IF getState = "loading" THEN <<GetPollRequest(message)>> ELSE <<>>

Next == ChatNext \/ RetractNext \/ ModalNext

Spec == Init /\ [][Next]_vars

\* one component at a time, the other two as first mounted
ChatInit == Init /\ message.name = "m1" /\ getState = "loading" /\ ~isOpen

ChatSpec == ChatInit /\ [][ChatNext]_vars

\* the event loop runs every runnable promise reaction
ChatFairSpec == ChatSpec /\ WF_vars(ChatReaction)

RetractInit == Init /\ ~isOpen

RetractSpec == RetractInit /\ [][RetractNext]_vars

ModalInit == Init /\ message.name = "m1" /\ getState = "loading"

ModalSpec == ModalInit /\ [][ModalNext]_vars

\* ------------------------------------------------------------ RetractVote
\* the retract_vote requests issued so far
RetractRequests == SelectSeq(requests, LAMBDA r : r.endpoint = RetractVoteEndpoint)

\* the toasts raised by chain i of onRetractVote
ToastsOf(i) == SelectSeq(toasts, LAMBDA t : t.of = i)

\* C1: RetractVote renders the 'Retract vote' item followed by a separator
\* exactly when the poll has been fetched and its current_user_votes list is
\* not empty; while loading, after a failed fetch, with no message in the
\* response or with no votes it renders null.
C1_RenderIffVotes ==
    /\ (Render.kind = "fragment") <=>
          /\ getState = "ok"
          /\ data # Undefined
          /\ data.message # Undefined
          /\ data.message.current_user_votes # <<>>
    /\ Render.kind = "fragment" => Render.item = "Retract vote" /\ Render.separator
    /\ Render.kind # "fragment" => Render = RenderNull
    /\ getState \in {"loading", "error"} => Render = RenderNull

C1_Witness ==
    /\ Render.kind = "fragment"
    /\ Len(data.message.current_user_votes) = 2
    /\ requests # <<>>

\* C2: every click issues exactly one retract_vote call carrying the
\* message's poll_id; a settled call has exactly one toast, 'Vote retracted'
\* when it resolved and 'Could not retract vote' when it rejected; an
\* unsettled call has none, and no call is issued again after a rejection.
C2_OneCallOneToast ==
    /\ Len(RetractRequests) = Len(calls)
    /\ \A i \in DOMAIN calls :
          /\ RetractRequests[i] = RetractVoteRequest(message)
          /\ RetractRequests[i].body.poll_id = message.poll_id
          /\ calls[i].st \in {"pending", "resolved", "rejected"} => ToastsOf(i) = <<>>
          /\ calls[i].st = "done_ok" =>
                /\ Len(ToastsOf(i)) = 1
                /\ ToastsOf(i)[1].title = "Vote retracted"
          /\ calls[i].st = "done_err" =>
                /\ Len(ToastsOf(i)) = 1
                /\ ToastsOf(i)[1].title = "Could not retract vote"
    /\ Len(toasts) = Cardinality({i \in DOMAIN calls : calls[i].st \in {"done_ok", "done_err"}})

C2_Witness ==
    /\ \E i \in DOMAIN calls : calls[i].st = "done_ok"
    /\ \E i \in DOMAIN calls : calls[i].st = "done_err"
    /\ Len(toasts) = 2

\* -------------------------------------------------------------- ChatInput
\* the send_message requests among reqs
SendRequestsIn(reqs) == SelectSeq(reqs, LAMBDA r : r.endpoint = SendMessageEndpoint)

SendRequests == SendRequestsIn(requests)

\* the addMessage calls of chain i among log
AddCallsIn(log, i) == SelectSeq(log, LAMBDA c : c.of = i)

\* chain i has called addMessage
AddInvoked(i) == sends[i].st \in {"add_pending", "add_resolved", "add_rejected", "done"}

\* this step is an onSubmit: a new chain starts
SubmitStep == Len(sends') = Len(sends) + 1

\* C3: a failure of any network call of these components, ChatInput's
\* send_message POST included, is caught at the call site and raises a toast:
\* no failed call is left as an unhandled rejection without a toast.
C3_EveryFailureToasted ==
    /\ \A i \in DOMAIN calls :
          calls[i].st = "done_err" => \E k \in DOMAIN toasts : toasts[k].of = i
    /\ \A i \in DOMAIN sends :
          sends[i].st = "post_rejected" => i \notin unhandled /\ toasts # <<>>

\* what every reachable state shows of the submits made so far
C4_Safety ==
    /\ Len(SendRequests) = Len(sends)
    /\ \A i \in DOMAIN sends :
          /\ sends[i].text # ""
          /\ SendRequests[i] = SendMessageRequest(sends[i].text)
          /\ Len(AddCallsIn(addMessageLog, i)) <= 1
          /\ sends[i].st \in {"add_resolved", "done"} =>
                AddCallsIn(addMessageLog, i) =
                    <<[text |-> sends[i].text, user |-> user_id, of |-> i]>>

\* C4: a submit with non-empty text t posts t to send_message; once the POST
\* and addMessage have both resolved, addMessage has been called exactly once
\* for that submit, with (t, user_id), t being the text at the submit, and
\* the text field then becomes the empty string.
C4_SubmitPostsCallsBackAndClears ==
    /\ []C4_Safety
    /\ [][SubmitStep => /\ text # ""
                        /\ sends'[Len(sends')].text = text
                        /\ requests'[Len(requests')] = SendMessageRequest(text)]_vars
    /\ \A i \in 1..MaxSends :
          (i \in DOMAIN sends /\ sends[i].st = "add_resolved")
             ~> (i \in DOMAIN sends /\ sends[i].st = "done" /\ text = "")

C4_Witness ==
    \E i \in DOMAIN sends :
        /\ sends[i].st = "done"
        /\ text = ""
        /\ AddCallsIn(addMessageLog, i) # <<>>

\* the order of a chain, as a state shows it and as a step keeps it
C6_Inv ==
    \A i \in DOMAIN sends :
        /\ AddCallsIn(addMessageLog, i) # <<>> => AddInvoked(i)
        /\ sends[i].st = "post_rejected" => AddCallsIn(addMessageLog, i) = <<>>
        /\ sends[i].st \in {"post_pending", "post_resolved"} => AddCallsIn(addMessageLog, i) = <<>>

C6_Step ==
    \A i \in DOMAIN sends :
        /\ Len(AddCallsIn(addMessageLog', i)) > Len(AddCallsIn(addMessageLog, i))
              => sends[i].st = "post_resolved"
        /\ (sends'[i].st = "done" /\ sends[i].st # "done") => sends[i].st = "add_resolved"
        /\ sends[i].st \in {"post_rejected", "add_rejected"} => sends'[i] = sends[i]
        /\ (sends'[i].st \in {"post_rejected", "add_rejected"} /\ sends'[i] # sends[i])
              => text' = text /\ addMessageLog' = addMessageLog
        /\ text' # text =>
              \/ sends' = sends
              \/ \E j \in DOMAIN sends : sends[j].st = "add_resolved" /\ sends'[j].st = "done"

\* C6: addMessage is called only once the POST has resolved and the field is
\* cleared only once addMessage's promise has resolved; after a rejected POST
\* the chain never calls addMessage and never touches the field, and after a
\* rejected addMessage it never touches the field.
C6_StrictOrder == []C6_Inv /\ [][C6_Step]_vars

C6_Witness ==
    /\ \E i \in DOMAIN sends : sends[i].st = "post_rejected" /\ text = sends[i].text
    /\ \E i \in DOMAIN sends : sends[i].st = "add_rejected"
    /\ Len(addMessageLog) = 1

\* C7: there is no in-flight guard: the send button is usable whenever the
\* field is non-empty, a POST being outstanding or not; every submit issues
\* exactly one POST of its own, none is dropped or issued again, and the
\* addMessage calls can come in another order than the submits.
C7_NoInFlightGuard ==
    /\ Len(SendRequests) = Len(sends)
    /\ \A i \in DOMAIN sends : SendRequests[i] = SendMessageRequest(sends[i].text)
    /\ (Len(text) > 0 /\ ~ChatMicrotask /\ Len(sends) < MaxSends) => ENABLED ClickSend

C7_Witness ==
    /\ Len(addMessageLog) >= 2
    /\ addMessageLog[1].of > addMessageLog[2].of
    /\ Len(SendRequests) = 2

\* what addMessage was given, and how the clearing step treats the field
C9_Inv ==
    \A k \in DOMAIN addMessageLog :
        /\ addMessageLog[k].text = sends[addMessageLog[k].of].text
        /\ addMessageLog[k].text = SendRequests[addMessageLog[k].of].body.text

C9_Step ==
    /\ \A i \in DOMAIN sends :
          (sends[i].st = "add_resolved" /\ sends'[i].st = "done") =>
              /\ text' = ""
              /\ requests' = requests
              /\ addMessageLog' = addMessageLog
    /\ SubmitStep => sends'[Len(sends')].text = text

\* C9: a successful send sets the field to the empty string whatever it
\* holds: text typed after the submit is dropped without any request having
\* carried it, and the POST and addMessage carry the submit-time text.
C9_ClearIsUnconditional == []C9_Inv /\ [][C9_Step]_vars

C9_Witness ==
    \E i \in DOMAIN sends :
        /\ sends[i].st = "done"
        /\ sends[i].prev \notin {"", sends[i].text}
        /\ \A k \in DOMAIN SendRequests : SendRequests[k].body.text # sends[i].prev
        /\ text = ""

\* C10: the send button is disabled exactly when the field is empty, a
\* disabled button cannot submit, and no send_message POST carries an empty
\* text.
C10_NoEmptyPost ==
    /\ sendDisabled <=> text = ""
    /\ text = "" => ~ENABLED ClickSend
    /\ \A k \in DOMAIN SendRequests : SendRequests[k].body.text # ""

C10_Witness ==
    /\ sendDisabled
    /\ Len(SendRequests) = MaxSends
    /\ \E i \in DOMAIN sends : sends[i].st = "post_pending"

\* -------------------------------------------------- AddChannelMemberModal
\* this step ran the submit handler: it wrote its console.log line
SubmitHandlerRan == Len(consoleLog') = Len(consoleLog) + 1

\* what a step that ran the submit handler, or the Cancel button, changes
C5_Step ==
    /\ SubmitHandlerRan =>
          /\ onCloseCalls' = onCloseCalls + 1
          /\ requests' = requests
          /\ consoleLog'[Len(consoleLog')].data.add_members = add_members
          /\ add_members' = add_members
    /\ (lastEvent' = "save" /\ onCloseCalls' # onCloseCalls) => SubmitHandlerRan
    /\ (lastEvent' = "cancel" /\ onCloseCalls' # onCloseCalls) =>
          /\ onCloseCalls' = onCloseCalls + 1
          /\ consoleLog' = consoleLog
          /\ requests' = requests

\* C5: submitting the form calls onClose exactly once and issues no network
\* request (so nothing reaches the backend's channel membership), whether
\* add_members is null, empty or not; Cancel calls onClose once too, without
\* running the submit handler.
C5_SubmitOnlyCloses ==
    /\ [][C5_Step]_vars
    /\ [](Len(consoleLog) <= onCloseCalls)
    /\ [][requests' = requests]_vars

C5_Witness ==
    /\ onCloseCalls = Len(consoleLog) + 1
    /\ \E k \in DOMAIN consoleLog : consoleLog[k].data.add_members = Null
    /\ \E k \in DOMAIN consoleLog : consoleLog[k].data.add_members = Arr(<<>>)
    /\ \E k \in DOMAIN consoleLog : Len(consoleLog[k].data.add_members.items) > 0
    /\ lastEvent = "cancel"

\* C8: the form is reset to add_members = null on first mount and whenever
\* isOpen changes, so right after the modal is reopened add_members is null,
\* whatever was selected, submitted or cancelled before.
C8_NullAfterReopen ==
    /\ lastEvent = "open" => isOpen /\ add_members = Null
    /\ lastEvent \in {"mount", "close"} /\ ~effectPending => add_members = Null
    /\ ~isOpen /\ ~effectPending => add_members = Null

C8_Witness ==
    /\ lastEvent = "open"
    /\ ~effectPending
    /\ add_members = Null
    /\ \E k \in DOMAIN consoleLog : Len(consoleLog[k].members.items) > 0

=============================================================================
